---- MODULE Spec2Model ----
\* State-machine model of the DNS client socket (src/src/socket/dns.rs).
\* Time is counted in milliseconds, as Duration::from_millis does.
EXTENDS Integers, Sequences, FiniteSets, TLC

VARIABLES servers, queries, now, last, pkt

vars == <<servers, queries, now, last, pkt>>

\* ---------------------------------------------------------------- constants
MAX_NAME_LEN == 255
MAX_ADDRESS_COUNT == 4
RETRANSMIT_DELAY == 1000
MAX_RETRANSMIT_DELAY == 10000
RETRANSMIT_TIMEOUT == 10000
\* Instant::ZERO
ZERO == 0
\* Option<Instant>::None of timeout_at
NoTime == -1
\* IpAddress::Unspecified / 0.0.0.0
Unspecified == 0

\* ------------------------------------------------------------------- bounds
\* number of slots of the borrowed (non-growable) query storage
NumSlots == 2
\* the clock is not advanced past this many seconds
MaxSeconds == 11
\* longest answer section of the packets of SpecAnswers
MaxRecords == 5
\* the single-query schedules of SpecSchedule and SpecTimer end after this
\* many seconds
ScheduleSeconds == 23
\* the single-query schedules start at most this many half seconds after
\* epoch zero
MaxStart == 3

Min(a, b) == IF a < b THEN a ELSE b

\* ------------------------------------------------------------ input domains
\* values of cx.rand().rand_u16() and cx.rand().rand_source_port()
Txids == {1, 2}
Ports == {49152}
\* resolver lists given to new / update_servers
R1 == 10
R2 == 11
ServerLists == {<<>>, <<R1>>, <<R1, R2>>, <<R1, Unspecified>>}
\* clock increments between two calls
Steps == {11000}
\* wire names as label sequences; a label is identified by its length
\* "rust-lang.org", "www.rust-lang.org"
NameOrg == <<9, 3>>
NameWww == <<3, 9, 3>>
\* a target of 4 labels of 63 octets: 257 octets on the wire
NameLong == <<63, 63, 63, 63>>

\* ----------------------------------------------------------------- name model
\* PendingQuery.name: the labels stored, and whether the 0x00 terminator is
\* stored after them
StoredName(labels) == [labels |-> labels, term |-> TRUE]

RECURSIVE ByteLen(_)
\* octets taken by the length-prefixed labels
ByteLen(labels) ==
    IF labels = <<>> THEN 0 ELSE 1 + Head(labels) + ByteLen(Tail(labels))

\* Packet::parse_name applied to a stored name: its labels, then an error when
\* the bytes end without terminator
ParseStored(name) == [labels |-> name.labels, err |-> ~name.term]

\* k-th item the label iterator yields
NameItem(n, k) ==
    IF k <= Len(n.labels) THEN [kind |-> "Label", label |-> n.labels[k]]
    ELSE IF n.err THEN [kind |-> "Err", label |-> 0]
    ELSE [kind |-> "None", label |-> 0]

RECURSIVE EqNamesFrom(_, _, _)
EqNamesFrom(a, b, k) ==
    LET ia == NameItem(a, k)
        ib == NameItem(b, k)
    IN  IF ia.kind = "Err" THEN "Err"
        ELSE IF ib.kind = "Err" THEN "Err"
        ELSE IF ia.kind = "None" /\ ib.kind = "None" THEN "True"
        ELSE IF ia.kind = "None" THEN "False"
        ELSE IF ib.kind = "None" THEN "False"
        ELSE IF ia.label # ib.label THEN "False"
        ELSE EqNamesFrom(a, b, k + 1)

\* eq_names: "True", "False" or "Err"
eq_names(a, b) == EqNamesFrom(a, b, 1)

RECURSIVE CopyLabels(_, _, _)
\* the loop of copy_name from the k-th label on, cur being the labels pushed
CopyLabels(cur, name, k) ==
    IF k > Len(name.labels)
    THEN IF name.err
         THEN [dest |-> [labels |-> cur, term |-> FALSE], ret |-> "Malformed"]
         ELSE IF ByteLen(cur) >= MAX_NAME_LEN
              THEN [dest |-> [labels |-> cur, term |-> FALSE], ret |-> "Truncated"]
              ELSE [dest |-> [labels |-> cur, term |-> TRUE], ret |-> "Ok"]
    ELSE IF ByteLen(cur) + 1 + name.labels[k] > MAX_NAME_LEN
         THEN [dest |-> [labels |-> cur, term |-> FALSE], ret |-> "Truncated"]
         ELSE CopyLabels(Append(cur, name.labels[k]), name, k + 1)

\* copy_name: dest after the call and the result
copy_name(name) == CopyLabels(<<>>, name, 1)

\* ------------------------------------------------------------- packet model
\* A received datagram, as the accessors of wire::dns::Packet, Question::parse
\* and Record::parse present it to process: 
\*   checked: Packet::new_checked succeeded; opcode, response, qdcount, txid,
\*   rcode: the header fields; dst_port: udp_repr.dst_port;
\*   question: [ok (Question::parse succeeded), type_, name];
\*   answers: one entry per counted answer record,
\*     [ok (Record::parse succeeded), name, kind, addr, target].
\* A name is what Packet::parse_name yields for it: [labels, err].
PName(labels) == [labels |-> labels, err |-> FALSE]
\* a name whose bytes end, or hit a reserved length octet, after `labels`
BadName(labels) == [labels |-> labels, err |-> TRUE]

RecA(owner, a) ==
    [ok |-> TRUE, name |-> owner, kind |-> "A", addr |-> a, target |-> PName(<<>>)]
RecAaaa(owner, a) ==
    [ok |-> TRUE, name |-> owner, kind |-> "Aaaa", addr |-> a, target |-> PName(<<>>)]
RecCname(owner, target) ==
    [ok |-> TRUE, name |-> owner, kind |-> "Cname", addr |-> 0, target |-> target]
RecOther(owner) ==
    [ok |-> TRUE, name |-> owner, kind |-> "Other", addr |-> 0, target |-> PName(<<>>)]
\* a record Record::parse fails on
RecBad ==
    [ok |-> FALSE, name |-> PName(<<>>), kind |-> "Other", addr |-> 0, target |-> PName(<<>>)]

Quest(ok, type_, name) == [ok |-> ok, type_ |-> type_, name |-> name]

Response(port, txid, rcode, question, answers) ==
    [checked |-> TRUE, opcode |-> "Query", response |-> TRUE, qdcount |-> 1,
     dst_port |-> port, txid |-> txid, rcode |-> rcode,
     question |-> question, answers |-> answers]

\* IpAddress::Ipv4(a) / IpAddress::Ipv6(a), the results of addr.into()
Ipv4(a) == [ver |-> 4, a |-> a]
Ipv6(a) == [ver |-> 6, a |-> a]

\* NewPending starting at the second resolver
NewPendingSecondServer(name, txid, port) ==
    [state |-> "Pending", name |-> name, type_ |-> "A", txid |-> txid,
     port |-> port, delay |-> RETRANSMIT_DELAY, timeout_at |-> NoTime,
     retransmit_at |-> ZERO, server_idx |-> 1, first_visit |-> NoTime,
     last_sent |-> NoTime]

\* --------------------------------------------------------------- slot model
\* Option<DnsQuery>: None, or a query in state Pending / Completed / Failure
NoneSlot == [state |-> "None"]
FailureSlot == [state |-> "Failure"]
CompletedSlot(addresses) == [state |-> "Completed", addresses |-> addresses]
\* first_visit and last_sent are history, not fields of PendingQuery: the
\* instant of the dispatch call that armed timeout_at, and the instant of the
\* latest successful emit for the query (NoTime before it)
NewPending(name, txid, port) ==
    [state |-> "Pending", name |-> name, type_ |-> "A", txid |-> txid,
     port |-> port, delay |-> RETRANSMIT_DELAY, timeout_at |-> NoTime,
     retransmit_at |-> ZERO, server_idx |-> 0, first_visit |-> NoTime,
     last_sent |-> NoTime]

IsPending(q) == q.state = "Pending"
IsOccupied(q) == q.state # "None"

\* --------------------------------------------------------- find_free_query
RECURSIVE FindFreeFromReuse(_, _)
\* FindFreeFrom taking a Failure slot for a free one
FindFreeFromReuse(qs, i) ==
    IF i > Len(qs) THEN 0
    ELSE IF qs[i].state \in {"None", "Failure"} THEN i
    ELSE FindFreeFromReuse(qs, i + 1)

RECURSIVE FindFreeFrom(_, _)
FindFreeFrom(qs, i) ==
    IF i > Len(qs) THEN 0
    ELSE IF qs[i].state = "None" THEN i
    ELSE FindFreeFrom(qs, i + 1)

\* find_free_query starting its scan at the second slot
find_free_query_from_second(qs) == FindFreeFrom(qs, 2)

\* find_free_query on ManagedSlice::Borrowed: the first free index, 0 for
\* Err(Exhausted)
find_free_query(qs) == FindFreeFrom(qs, 1)

\* --------------------------------------------------------- start_query_raw
start_query_raw(qs, name, txid, port) ==
    LET h == find_free_query(qs)
    IN  IF h = 0
        THEN [queries |-> qs, ret |-> "Exhausted", h |-> 0]
        ELSE [queries |-> [qs EXCEPT ![h] = NewPending(name, txid, port)],
              ret |-> "Ok", h |-> h]

\* -------------------------------------------------------------- start_query
\* A human-readable name is the sequence of the lengths of the pieces that
\* splitting it on '.' gives: "" is <<0>>, "rust-lang.org" is <<9, 3>> and
\* "rust-lang.org." is <<9, 3, 0>>.
\* the name without its trailing dot, if it ends with one
StripDot(n) ==
    IF Len(n) >= 2 /\ n[Len(n)] = 0 THEN SubSeq(n, 1, Len(n) - 1) ELSE n

RECURSIVE PushLabels(_, _, _)
\* the loop over the labels from the k-th on, raw_name holding used octets,
\* and the push of the terminator: "Ok" or the error returned
PushLabels(labels, k, used) ==
    IF k > Len(labels)
    THEN IF used + 1 > MAX_NAME_LEN THEN "Exhausted" ELSE "Ok"
    ELSE IF labels[k] > 255 THEN "Illegal"
    ELSE IF labels[k] = 0 THEN "Illegal"
    ELSE IF used + 1 > MAX_NAME_LEN THEN "Exhausted"
    ELSE IF used + 1 + labels[k] > MAX_NAME_LEN THEN "Exhausted"
    ELSE PushLabels(labels, k + 1, used + 1 + labels[k])

start_query(qs, n, txid, port) ==
    IF n = <<0>> THEN [queries |-> qs, ret |-> "Illegal", h |-> 0]
    ELSE LET labels == StripDot(n)
             r == PushLabels(labels, 1, 0)
         IN  IF r # "Ok" THEN [queries |-> qs, ret |-> r, h |-> 0]
             ELSE start_query_raw(qs, StoredName(labels), txid, port)

\* -------------------------------------------------------- get_query_result
\* get_query_result leaving a Failure slot in place
get_query_result_keep(qs, h) ==
    IF h < 1 \/ h > Len(qs) THEN [queries |-> qs, ret |-> "Illegal", res |-> <<>>]
    ELSE IF qs[h].state = "None" THEN [queries |-> qs, ret |-> "Illegal", res |-> <<>>]
    ELSE IF qs[h].state = "Pending"
         THEN [queries |-> qs, ret |-> "Exhausted", res |-> <<>>]
    ELSE IF qs[h].state = "Completed"
         THEN [queries |-> [qs EXCEPT ![h] = NoneSlot], ret |-> "Ok",
               res |-> qs[h].addresses]
    ELSE [queries |-> qs, ret |-> "Unaddressable", res |-> <<>>]

get_query_result(qs, h) ==
    IF h < 1 \/ h > Len(qs) THEN [queries |-> qs, ret |-> "Illegal", res |-> <<>>]
    ELSE IF qs[h].state = "None" THEN [queries |-> qs, ret |-> "Illegal", res |-> <<>>]
    ELSE IF qs[h].state = "Pending"
         THEN [queries |-> qs, ret |-> "Exhausted", res |-> <<>>]
    ELSE IF qs[h].state = "Completed"
         THEN [queries |-> [qs EXCEPT ![h] = NoneSlot], ret |-> "Ok",
               res |-> qs[h].addresses]
    ELSE [queries |-> [qs EXCEPT ![h] = NoneSlot], ret |-> "Unaddressable",
          res |-> <<>>]

\* ------------------------------------------------------------ cancel_query
\* cancel_query refusing a slot whose query is finished
cancel_query_pending_only(qs, h) ==
    IF h < 1 \/ h > Len(qs) THEN [queries |-> qs, ret |-> "Illegal"]
    ELSE IF qs[h].state # "Pending" THEN [queries |-> qs, ret |-> "Illegal"]
    ELSE [queries |-> [qs EXCEPT ![h] = NoneSlot], ret |-> "Ok"]

cancel_query(qs, h) ==
    IF h < 1 \/ h > Len(qs) THEN [queries |-> qs, ret |-> "Illegal"]
    ELSE IF qs[h].state = "None" THEN [queries |-> qs, ret |-> "Illegal"]
    ELSE [queries |-> [qs EXCEPT ![h] = NoneSlot], ret |-> "Ok"]

\* ----------------------------------------------------------------- process
\* the header checks of process: "Ok" or the error returned
HeaderCheck(p) ==
    IF ~p.checked THEN "Truncated"
    ELSE IF p.opcode # "Query" THEN "Malformed"
    ELSE IF ~p.response THEN "Malformed"
    ELSE IF p.qdcount # 1 THEN "Malformed"
    ELSE "Ok"

\* Matches comparing the transaction id alone
MatchesTxidOnly(pq, p) == ~(p.txid # pq.txid)

\* the slot is the one the response is for
Matches(pq, p) == ~(p.dst_port # pq.port \/ p.txid # pq.txid)

\* PushAddress on a vector without capacity limit
PushAddressUnbounded(addresses, a) == Append(addresses, a)

\* Vec::push on addresses: Err (ignored) when full
PushAddress(addresses, a) ==
    IF Len(addresses) >= MAX_ADDRESS_COUNT THEN addresses ELSE Append(addresses, a)

RECURSIVE ScanAnswers(_, _, _, _)
\* the loop over the answer records from the k-th on: the name stored in the
\* slot, the addresses collected and "Ok" or the error returned
ScanAnswers(name, addresses, recs, k) ==
    IF k > Len(recs) THEN [name |-> name, addresses |-> addresses, ret |-> "Ok"]
    ELSE LET r == recs[k] IN
         IF ~r.ok THEN [name |-> name, addresses |-> addresses, ret |-> "Malformed"]
         ELSE LET eq == eq_names(r.name, ParseStored(name)) IN
              IF eq = "Err"
              THEN [name |-> name, addresses |-> addresses, ret |-> "Malformed"]
              ELSE IF eq = "False" THEN ScanAnswers(name, addresses, recs, k + 1)
              ELSE IF r.kind = "A"
                   THEN ScanAnswers(name, PushAddress(addresses, Ipv4(r.addr)), recs, k + 1)
              ELSE IF r.kind = "Aaaa"
                   THEN ScanAnswers(name, PushAddress(addresses, Ipv6(r.addr)), recs, k + 1)
              ELSE IF r.kind = "Cname"
                   THEN LET c == copy_name(r.target) IN
                        IF c.ret # "Ok"
                        THEN [name |-> c.dest, addresses |-> addresses, ret |-> c.ret]
                        ELSE ScanAnswers(c.dest, addresses, recs, k + 1)
              ELSE ScanAnswers(name, addresses, recs, k + 1)

\* the state set at the end of a matched response
ResultState(addresses) ==
    IF addresses = <<>> THEN FailureSlot ELSE CompletedSlot(addresses)

\* the body of the loop of process for a matching Pending slot, the rcode
\* being other than NXDomain: the slot after it and "Ok" or the error
ProcessMatch(pq, p) ==
    IF ~p.question.ok THEN [slot |-> pq, ret |-> "Malformed"]
    ELSE IF p.question.type_ # pq.type_ THEN [slot |-> pq, ret |-> "Malformed"]
    ELSE LET eq == eq_names(p.question.name, ParseStored(pq.name)) IN
         IF eq # "True" THEN [slot |-> pq, ret |-> "Malformed"]
         ELSE LET s == ScanAnswers(pq.name, <<>>, p.answers, 1) IN
              IF s.ret # "Ok"
              THEN [slot |-> [pq EXCEPT !.name = s.name], ret |-> s.ret]
              ELSE [slot |-> ResultState(s.addresses), ret |-> "Ok"]

RECURSIVE ProcessFromAnyRcode(_, _, _)
\* ProcessFrom without the NXDomain case
ProcessFromAnyRcode(qs, p, i) ==
    IF i > Len(qs) THEN [queries |-> qs, ret |-> "Ok"]
    ELSE IF ~IsPending(qs[i]) THEN ProcessFromAnyRcode(qs, p, i + 1)
    ELSE IF ~Matches(qs[i], p) THEN ProcessFromAnyRcode(qs, p, i + 1)
    ELSE LET m == ProcessMatch(qs[i], p)
         IN  [queries |-> [qs EXCEPT ![i] = m.slot], ret |-> m.ret]

RECURSIVE ProcessFromEveryMatch(_, _, _)
\* ProcessFrom going on to the later slots after a slot has been answered
ProcessFromEveryMatch(qs, p, i) ==
    IF i > Len(qs) THEN [queries |-> qs, ret |-> "Ok"]
    ELSE IF ~IsPending(qs[i]) THEN ProcessFromEveryMatch(qs, p, i + 1)
    ELSE IF ~Matches(qs[i], p) THEN ProcessFromEveryMatch(qs, p, i + 1)
    ELSE IF p.rcode = "NXDomain"
         THEN ProcessFromEveryMatch([qs EXCEPT ![i] = FailureSlot], p, i + 1)
    ELSE LET m == ProcessMatch(qs[i], p)
         IN  IF m.ret # "Ok"
             THEN [queries |-> [qs EXCEPT ![i] = m.slot], ret |-> m.ret]
             ELSE ProcessFromEveryMatch([qs EXCEPT ![i] = m.slot], p, i + 1)

RECURSIVE ProcessFrom(_, _, _)
\* the loop over the slots of process, from slot i on
ProcessFrom(qs, p, i) ==
    IF i > Len(qs) THEN [queries |-> qs, ret |-> "Ok"]
    ELSE IF ~IsPending(qs[i]) THEN ProcessFrom(qs, p, i + 1)
    ELSE IF ~Matches(qs[i], p) THEN ProcessFrom(qs, p, i + 1)
    ELSE IF p.rcode = "NXDomain"
         THEN ProcessFrom([qs EXCEPT ![i] = FailureSlot], p, i + 1)
    ELSE LET m == ProcessMatch(qs[i], p)
         IN  [queries |-> [qs EXCEPT ![i] = m.slot], ret |-> m.ret]

process(qs, p) ==
    IF HeaderCheck(p) # "Ok" THEN [queries |-> qs, ret |-> HeaderCheck(p)]
    ELSE ProcessFrom(qs, p, 1)

\* ---------------------------------------------------------------- dispatch
\* ArmTimeout arming the deadline one retransmit delay ahead
ArmTimeoutShort(pq, t) ==
    IF pq.timeout_at = NoTime
    THEN [pq EXCEPT !.timeout_at = t + RETRANSMIT_DELAY, !.first_visit = t]
    ELSE pq

\* timeout arming: timeout_at = Some(now + RETRANSMIT_TIMEOUT) when it is None
ArmTimeout(pq, t) ==
    IF pq.timeout_at = NoTime
    THEN [pq EXCEPT !.timeout_at = t + RETRANSMIT_TIMEOUT, !.first_visit = t]
    ELSE pq

\* TimedOut firing at the deadline itself
TimedOutAtDeadline(pq, t) == pq.timeout_at <= t

\* the timeout check
TimedOut(pq, t) == pq.timeout_at < t

\* FireTimeout taking the next transaction id for the next server
FireTimeoutNewTxid(pq, t) ==
    IF TimedOut(pq, t)
    THEN [pq EXCEPT !.timeout_at = t + RETRANSMIT_TIMEOUT,
                    !.retransmit_at = ZERO,
                    !.delay = RETRANSMIT_DELAY,
                    !.server_idx = @ + 1,
                    !.txid = @ + 1]
    ELSE pq

\* FireTimeout keeping the delay the backoff has reached
FireTimeoutKeepDelay(pq, t) ==
    IF TimedOut(pq, t)
    THEN [pq EXCEPT !.timeout_at = t + RETRANSMIT_TIMEOUT,
                    !.retransmit_at = ZERO,
                    !.server_idx = @ + 1]
    ELSE pq

\* FireTimeout staying with the same server
FireTimeoutSameServer(pq, t) ==
    IF TimedOut(pq, t)
    THEN [pq EXCEPT !.timeout_at = t + RETRANSMIT_TIMEOUT,
                    !.retransmit_at = ZERO,
                    !.delay = RETRANSMIT_DELAY]
    ELSE pq

\* timeout firing: next server, backoff reset
FireTimeout(pq, t) ==
    IF TimedOut(pq, t)
    THEN [pq EXCEPT !.timeout_at = t + RETRANSMIT_TIMEOUT,
                    !.retransmit_at = ZERO,
                    !.delay = RETRANSMIT_DELAY,
                    !.server_idx = @ + 1]
    ELSE pq

\* NoServer without the check of the address
NoServerIndexOnly(pq, srv) == pq.server_idx >= Len(srv)

\* the slot has run out of servers, or its server is not a valid address
NoServer(pq, srv) ==
    IF pq.server_idx >= Len(srv) THEN TRUE
    ELSE srv[pq.server_idx + 1] = Unspecified

\* the query is waiting for retransmit
Waiting(pq, t) == pq.retransmit_at > t

\* the datagram handed to emit: ip_repr.dst_addr, udp_repr, and the Repr
Datagram(i, pq, srv) ==
    [slot |-> i, dst_addr |-> srv[pq.server_idx + 1], src_port |-> pq.port,
     dst_port |-> 53, txid |-> pq.txid, name |-> pq.name, type_ |-> "A",
     server_idx |-> pq.server_idx]

\* AdvanceBackoff leaving the query due at the instant of the emission
AdvanceBackoffNoWait(pq, t) ==
    [pq EXCEPT !.retransmit_at = t,
               !.delay = Min(MAX_RETRANSMIT_DELAY, pq.delay * 2),
               !.last_sent = t]

\* AdvanceBackoff capping the delay before it is doubled
AdvanceBackoffCapFirst(pq, t) ==
    [pq EXCEPT !.retransmit_at = t + pq.delay,
               !.delay = Min(MAX_RETRANSMIT_DELAY, pq.delay) * 2,
               !.last_sent = t]

\* AdvanceBackoff doubling without the cap
AdvanceBackoffUncapped(pq, t) ==
    [pq EXCEPT !.retransmit_at = t + pq.delay,
               !.delay = pq.delay * 2,
               !.last_sent = t]

\* backoff advance after a successful emit
AdvanceBackoff(pq, t) ==
    [pq EXCEPT !.retransmit_at = t + pq.delay,
               !.delay = Min(MAX_RETRANSMIT_DELAY, pq.delay * 2),
               !.last_sent = t]

RECURSIVE DispatchFromSkipNoServer(_, _, _, _, _)
\* DispatchFrom passing over a slot without a server, the slot left Pending
DispatchFromSkipNoServer(qs, srv, t, emit_ok, i) ==
    IF i > Len(qs) THEN [queries |-> qs, ret |-> "Exhausted", emits |-> <<>>]
    ELSE IF ~IsPending(qs[i]) THEN DispatchFromSkipNoServer(qs, srv, t, emit_ok, i + 1)
    ELSE LET pq == FireTimeout(ArmTimeout(qs[i], t), t) IN
         IF NoServer(pq, srv) \/ Waiting(pq, t)
         THEN DispatchFromSkipNoServer([qs EXCEPT ![i] = pq], srv, t, emit_ok, i + 1)
         ELSE IF ~emit_ok
              THEN [queries |-> [qs EXCEPT ![i] = pq], ret |-> "Ok",
                    emits |-> <<Datagram(i, pq, srv)>>]
         ELSE [queries |-> [qs EXCEPT ![i] = AdvanceBackoff(pq, t)], ret |-> "Ok",
               emits |-> <<Datagram(i, pq, srv)>>]

RECURSIVE DispatchFromEmitAll(_, _, _, _, _)
\* DispatchFrom going on with the scan after a datagram was handed to emit
DispatchFromEmitAll(qs, srv, t, emit_ok, i) ==
    IF i > Len(qs) THEN [queries |-> qs, ret |-> "Exhausted", emits |-> <<>>]
    ELSE IF ~IsPending(qs[i]) THEN DispatchFromEmitAll(qs, srv, t, emit_ok, i + 1)
    ELSE LET pq == FireTimeout(ArmTimeout(qs[i], t), t) IN
         IF NoServer(pq, srv)
         THEN DispatchFromEmitAll([qs EXCEPT ![i] = FailureSlot], srv, t, emit_ok, i + 1)
         ELSE IF Waiting(pq, t)
              THEN DispatchFromEmitAll([qs EXCEPT ![i] = pq], srv, t, emit_ok, i + 1)
         ELSE LET sent == IF emit_ok THEN AdvanceBackoff(pq, t) ELSE pq
                  r == DispatchFromEmitAll([qs EXCEPT ![i] = sent], srv, t, emit_ok, i + 1)
              IN  [queries |-> r.queries, ret |-> "Ok",
                   emits |-> <<Datagram(i, pq, srv)>> \o r.emits]

RECURSIVE DispatchFromAdvanceOnError(_, _, _, _, _)
\* DispatchFrom advancing the backoff whatever emit returns
DispatchFromAdvanceOnError(qs, srv, t, emit_ok, i) ==
    IF i > Len(qs) THEN [queries |-> qs, ret |-> "Exhausted", emits |-> <<>>]
    ELSE IF ~IsPending(qs[i]) THEN DispatchFromAdvanceOnError(qs, srv, t, emit_ok, i + 1)
    ELSE LET pq == FireTimeout(ArmTimeout(qs[i], t), t) IN
         IF NoServer(pq, srv)
         THEN DispatchFromAdvanceOnError([qs EXCEPT ![i] = FailureSlot], srv, t, emit_ok, i + 1)
         ELSE IF Waiting(pq, t)
              THEN DispatchFromAdvanceOnError([qs EXCEPT ![i] = pq], srv, t, emit_ok, i + 1)
         ELSE [queries |-> [qs EXCEPT ![i] = AdvanceBackoff(pq, t)], ret |-> "Ok",
               emits |-> <<Datagram(i, pq, srv)>>]

RECURSIVE DispatchFrom(_, _, _, _, _)
\* the loop over the slots of dispatch, from slot i on; emit_ok is the result
\* of the emit callback if it is invoked
DispatchFrom(qs, srv, t, emit_ok, i) ==
    IF i > Len(qs) THEN [queries |-> qs, ret |-> "Exhausted", emits |-> <<>>]
    ELSE IF ~IsPending(qs[i]) THEN DispatchFrom(qs, srv, t, emit_ok, i + 1)
    ELSE LET pq == FireTimeout(ArmTimeout(qs[i], t), t) IN
         IF NoServer(pq, srv)
         THEN DispatchFrom([qs EXCEPT ![i] = FailureSlot], srv, t, emit_ok, i + 1)
         ELSE IF Waiting(pq, t)
              THEN DispatchFrom([qs EXCEPT ![i] = pq], srv, t, emit_ok, i + 1)
         ELSE IF ~emit_ok
              THEN [queries |-> [qs EXCEPT ![i] = pq], ret |-> "Ok",
                    emits |-> <<Datagram(i, pq, srv)>>]
         ELSE [queries |-> [qs EXCEPT ![i] = AdvanceBackoff(pq, t)], ret |-> "Ok",
               emits |-> <<Datagram(i, pq, srv)>>]

dispatch(qs, srv, t, emit_ok) == DispatchFrom(qs, srv, t, emit_ok, 1)

\* ----------------------------------------------------------------- poll_at
\* PendingTimes taking the resolver deadline for the retransmit instant
PendingTimesDeadline(qs) ==
    {qs[i].timeout_at : i \in {j \in 1..Len(qs) : IsPending(qs[j])}}

PendingTimes(qs) ==
    {qs[i].retransmit_at : i \in {j \in 1..Len(qs) : IsPending(qs[j])}}

poll_at(qs) ==
    IF PendingTimes(qs) = {} THEN [kind |-> "Ingress", t |-> 0]
    ELSE [kind |-> "Time",
          t |-> CHOOSE t \in PendingTimes(qs) : \A u \in PendingTimes(qs) : t <= u]

\* ------------------------------------------------------------------ inputs
QueryNames == {StoredName(NameOrg)}

\* (udp dst_port, txid) of the datagrams received: those the queries can
\* have, and two no query has (another port, another transaction id)
QueryPairs == Ports \X Txids
StrayPairs == {<<49153, 1>>, <<49152, 3>>}

\* datagrams that fail a header check
BadHeaders(port, txid) ==
    LET ok == Response(port, txid, "NoError", Quest(TRUE, "A", PName(NameOrg)), <<>>)
    IN  {[ok EXCEPT !.checked = FALSE], [ok EXCEPT !.opcode = "Status"],
         [ok EXCEPT !.response = FALSE], [ok EXCEPT !.qdcount = 2]}

\* responses with rcode NXDomain, with a sound and with an unparseable body
NxResponses(port, txid) ==
    {Response(port, txid, "NXDomain", Quest(TRUE, "A", PName(NameOrg)), <<>>),
     Response(port, txid, "NXDomain", Quest(FALSE, "A", BadName(<<>>)), <<RecBad>>)}

\* questions process rejects for a query of NameOrg
BadQuestions ==
    {Quest(FALSE, "A", PName(NameOrg)), Quest(TRUE, "Mx", PName(NameOrg)),
     Quest(TRUE, "A", BadName(<<9>>)), Quest(TRUE, "A", PName(<<3>>))}

\* responses with rcode NoError, for the given question names and answers
PlainResponses(port, txid, names, answers) ==
    {Response(port, txid, "NoError", q, <<>>) : q \in BadQuestions}
    \cup {Response(port, txid, "NoError", Quest(TRUE, "A", PName(n)), a) :
            n \in names, a \in answers}

\* answer sections of the responses received in Spec
AnswerLists ==
    {<<>>,
     <<RecA(PName(NameOrg), 1)>>,
     <<RecCname(PName(NameOrg), PName(NameWww)), RecA(PName(NameWww), 2)>>,
     <<RecCname(PName(NameOrg), PName(NameWww)), RecBad>>}

\* the datagrams received in Spec
Packets ==
    BadHeaders(49152, 1)
    \cup UNION {NxResponses(pt[1], pt[2])
                \cup PlainResponses(pt[1], pt[2], {NameOrg}, AnswerLists) :
                pt \in QueryPairs}
    \cup UNION {{Response(pt[1], pt[2], "NXDomain", Quest(TRUE, "A", PName(NameOrg)), <<>>),
                 Response(pt[1], pt[2], "NoError", Quest(FALSE, "A", BadName(<<>>)), <<RecBad>>),
                 Response(pt[1], pt[2], "NoError", Quest(TRUE, "A", PName(NameOrg)),
                          <<RecA(PName(NameOrg), 1)>>)} : pt \in StrayPairs}

\* pkt when no datagram is held
NoPkt == [checked |-> FALSE]

\* out-of-range handle included
Handles == 1..(NumSlots + 1)

\* ----------------------------------------------------------------- actions
Init ==
    /\ servers \in ServerLists
    /\ queries = [i \in 1..NumSlots |-> NoneSlot]
    /\ now = 0
    /\ last = [op |-> "new"]
    /\ pkt = NoPkt

UpdateServers ==
    \E list \in ServerLists :
        /\ servers' = list
        /\ last' = [op |-> "update_servers"]
        /\ UNCHANGED <<queries, now, pkt>>

StartQueryRaw ==
    \E name \in QueryNames, txid \in Txids, port \in Ports :
        LET r == start_query_raw(queries, name, txid, port) IN
        /\ queries' = r.queries
        /\ last' = [op |-> "start_query_raw", ret |-> r.ret, h |-> r.h]
        /\ UNCHANGED <<servers, now, pkt>>

GetQueryResult ==
    \E h \in Handles :
        LET r == get_query_result(queries, h) IN
        /\ queries' = r.queries
        /\ last' = [op |-> "get_query_result", ret |-> r.ret, h |-> h, res |-> r.res]
        /\ UNCHANGED <<servers, now, pkt>>

CancelQuery ==
    \E h \in Handles :
        LET r == cancel_query(queries, h) IN
        /\ queries' = r.queries
        /\ last' = [op |-> "cancel_query", ret |-> r.ret, h |-> h]
        /\ UNCHANGED <<servers, now, pkt>>

\* process called with datagram p; last records the result, the header
\* fields of p and the slots the call changed
ProcessPacket(p) ==
    LET r == process(queries, p) IN
    /\ queries' = r.queries
    /\ last' = [op |-> "process", ret |-> r.ret, hdr |-> HeaderCheck(p),
                port |-> p.dst_port, txid |-> p.txid, rcode |-> p.rcode,
                changed |-> {i \in 1..Len(queries) : r.queries[i] # queries[i]}]
    /\ UNCHANGED <<servers, now, pkt>>

Process == \E p \in Packets : ProcessPacket(p)

\* dispatch called with an emit callback that returns Ok iff emit_ok; last
\* records the datagrams handed to emit, the slots the call moved to Failure,
\* and the Pending slots whose server_idx was out of range before the call
DispatchWith(emit_ok) ==
    LET r == dispatch(queries, servers, now, emit_ok) IN
    /\ queries' = r.queries
    /\ last' = [op |-> "dispatch", ret |-> r.ret, emits |-> r.emits,
                emit_ok |-> emit_ok,
                failed |-> {i \in 1..Len(queries) :
                              IsPending(queries[i]) /\ r.queries[i].state = "Failure"},
                stale |-> {i \in 1..Len(queries) :
                             IsPending(queries[i])
                               /\ queries[i].server_idx >= Len(servers)}]
    /\ UNCHANGED <<servers, now, pkt>>

Dispatch == \E emit_ok \in BOOLEAN : DispatchWith(emit_ok)

PollAt ==
    /\ last' = [op |-> "poll_at", ret |-> poll_at(queries)]
    /\ UNCHANGED <<servers, queries, now, pkt>>

\* the clock read by cx.now() advances between two calls
Tick ==
    \E d \in Steps :
        /\ now + d <= MaxSeconds * 1000
        /\ now' = now + d
        /\ last' = [op |-> "tick"]
        /\ UNCHANGED <<servers, queries, pkt>>

Next ==
    \/ UpdateServers
    \/ StartQueryRaw
    \/ GetQueryResult
    \/ CancelQuery
    \/ Process
    \/ Dispatch
    \/ PollAt
    \/ Tick

Spec == Init /\ [][Next]_vars

\* ------------------------------------------------- SpecIngress, SpecEgress
\* SpecIngress: the calls of the caller and the ingress path, with one resolver
\* and the clock at epoch zero; dispatch gives the Pending slots their timer
\* fields.
InitIngress ==
    /\ servers = <<R1>>
    /\ queries = [i \in 1..NumSlots |-> NoneSlot]
    /\ now = 0
    /\ last = [op |-> "new"]
    /\ pkt = NoPkt

NextIngress ==
    \/ StartQueryRaw
    \/ GetQueryResult
    \/ CancelQuery
    \/ Process
    \/ Dispatch

SpecIngress == InitIngress /\ [][NextIngress]_vars

\* SpecEgress: queries that get no response, under a changing resolver list
\* and an advancing clock.
EgressSteps == {4000, 11000}

EgressTick ==
    \E d \in EgressSteps :
        /\ now + d <= MaxSeconds * 1000
        /\ now' = now + d
        /\ last' = [op |-> "tick"]
        /\ UNCHANGED <<servers, queries, pkt>>

NextEgress ==
    \/ UpdateServers
    \/ StartQueryRaw
    \/ Dispatch
    \/ EgressTick

SpecEgress == Init /\ [][NextEgress]_vars

\* SpecResolvers: queries that get no response and that the caller cancels,
\* under a changing resolver list and a clock that passes a deadline in one
\* step.
NextResolvers ==
    \/ UpdateServers
    \/ StartQueryRaw
    \/ CancelQuery
    \/ Dispatch
    \/ Tick

SpecResolvers == Init /\ [][NextResolvers]_vars

\* SpecPoll: poll_at called between the other calls, with one resolver; the
\* queries are emitted, retransmitted, timed out, answered and refused.
PollPackets ==
    {Response(49152, 1, "NoError", Quest(TRUE, "A", PName(NameOrg)),
              <<RecA(PName(NameOrg), 1)>>),
     Response(49152, 2, "NXDomain", Quest(TRUE, "A", PName(NameOrg)), <<>>)}

PollProcess == \E p \in PollPackets : ProcessPacket(p)

NextPoll ==
    \/ StartQueryRaw
    \/ PollProcess
    \/ Dispatch
    \/ PollAt
    \/ EgressTick

SpecPoll == InitIngress /\ [][NextPoll]_vars

\* ------------------------------------------------------------- SpecAnswers
\* One well-formed response for one pending query: process applied to every
\* answer section of up to MaxRecords records over AnswerRecords.
AnswerRecords ==
    {RecA(PName(NameOrg), 1), RecA(PName(NameWww), 2), RecAaaa(PName(NameOrg), 3),
     RecCname(PName(NameOrg), PName(NameWww)), RecCname(PName(NameWww), PName(NameOrg)),
     RecOther(PName(NameOrg))}

RECURSIVE SeqsUpTo(_, _)
\* the sequences over S of length at most n
SeqsUpTo(S, n) ==
    IF n = 0 THEN {<<>>}
    ELSE LET shorter == SeqsUpTo(S, n - 1)
         IN  shorter \cup {Append(q, x) : q \in {r \in shorter : Len(r) = n - 1}, x \in S}

InitAnswers ==
    /\ servers = <<R1>>
    /\ now = 0
    /\ last = [op |-> "start_query_raw", ret |-> "Ok", h |-> 1]
    /\ \E name \in {NameOrg, NameWww} :
          /\ queries = [i \in 1..NumSlots |->
                          IF i = 1 THEN NewPending(StoredName(name), 1, 49152)
                          ELSE NoneSlot]
          /\ pkt \in {Response(49152, 1, "NoError", Quest(TRUE, "A", PName(name)), a) :
                         a \in SeqsUpTo(AnswerRecords, MaxRecords)}

\* process called once with the datagram held
ProcessHeld ==
    /\ last.op # "process"
    /\ ProcessPacket(pkt)

SpecAnswers == InitAnswers /\ [][ProcessHeld]_vars

\* --------------------------------------------------------------- SpecNames
\* start_query called with the names of one or two pieces of lengths that
\* reach the limits of the checks and of the buffer, and with names of three
\* pieces that have an empty piece.
LabelLens == {0, 9, 254, 255, 256}

HumanNames ==
    (SeqsUpTo(LabelLens, 2) \ {<<>>})
    \cup {<<9, 3, 0>>, <<9, 0, 3>>, <<9, 0, 0>>, <<255, 0, 0>>, <<254, 0, 9>>}

StartQuery ==
    \E n \in HumanNames, txid \in Txids, port \in Ports :
        LET r == start_query(queries, n, txid, port) IN
        /\ queries' = r.queries
        /\ last' = [op |-> "start_query", ret |-> r.ret, h |-> r.h, name |-> n]
        /\ UNCHANGED <<servers, now, pkt>>

SpecNames == InitIngress /\ [][StartQuery]_vars

\* ----------------------------------------------------------- ICMPv4 codec
\* (src/src/wire/icmpv4.rs) A buffer is a sequence of octets; the octet at
\* offset k of the source is element k + 1.
\* Type::EchoReply, Type::EchoRequest as u8
EchoReply == 0
EchoRequest == 8

\* NetworkEndian::read_u16 / write_u16 at offset off
ReadU16(buf, off) == buf[off + 1] * 256 + buf[off + 2]

WriteU16(buf, off, v) ==
    [buf EXCEPT ![off + 1] = v \div 256, ![off + 2] = v % 256]

msg_type(buf) == buf[1]
msg_code(buf) == buf[2]
checksum(buf) == ReadU16(buf, 2)
echo_ident(buf) == ReadU16(buf, 4)
echo_seq_no(buf) == ReadU16(buf, 6)

header_len(buf) ==
    IF msg_type(buf) = EchoRequest THEN 8
    ELSE IF msg_type(buf) = EchoReply THEN 8
    ELSE 4

\* Packet::new: TRUE for Ok
PacketNew(buf) ==
    IF Len(buf) < 4 THEN FALSE
    ELSE Len(buf) >= header_len(buf)

data(buf) == SubSeq(buf, header_len(buf) + 1, Len(buf))

RECURSIVE SumWords(_, _, _)
\* the sum of the 16-bit words of d from offset i on, the word at offset
\* checksum_at left out, a last single octet counted as the high octet
SumWords(checksum_at, d, i) ==
    IF i >= Len(d) THEN 0
    ELSE IF i = checksum_at THEN SumWords(checksum_at, d, i + 2)
    ELSE (IF i + 2 <= Len(d) THEN ReadU16(d, i) ELSE d[i + 1] * 256)
         + SumWords(checksum_at, d, i + 2)

RECURSIVE Fold16(_)
\* the carries of a u32 sum folded into 16 bits
Fold16(x) == IF x \div 65536 # 0 THEN Fold16((x % 65536) + (x \div 65536)) ELSE x

\* wire::ip::rfc1071_checksum: the complement of the folded sum
rfc1071_checksum(checksum_at, d) == 65535 - Fold16(SumWords(checksum_at, d, 0))

verify_checksum(buf) ==
    checksum(buf) = rfc1071_checksum(2, SubSeq(buf, 1, header_len(buf)))

set_msg_type(buf, v) == [buf EXCEPT ![1] = v]
set_msg_code(buf, v) == [buf EXCEPT ![2] = v]
set_checksum(buf, v) == WriteU16(buf, 2, v)
set_echo_ident(buf, v) == WriteU16(buf, 4, v)
set_echo_seq_no(buf, v) == WriteU16(buf, 6, v)

\* fill_checksum summing the whole packet
fill_checksum_whole_packet(buf) ==
    set_checksum(buf, rfc1071_checksum(2, buf))

fill_checksum(buf) ==
    set_checksum(buf, rfc1071_checksum(2, SubSeq(buf, 1, header_len(buf))))

\* packet.data_mut()[..data_len].copy_from_slice(&data[..data_len])
CopyData(buf, d) ==
    LET data_len == Min(Len(buf) - header_len(buf), Len(d))
    IN  [k \in 1..Len(buf) |->
            IF k > header_len(buf) /\ k <= header_len(buf) + data_len
            THEN d[k - header_len(buf)]
            ELSE buf[k]]

\* Repr: kind is EchoRequest or EchoReply
Repr(kind, ident, seq_no, d) ==
    [kind |-> kind, ident |-> ident, seq_no |-> seq_no, data |-> d]

\* Repr::len
ReprLen(repr) == 8 + Len(repr.data)

\* Repr::emit
ReprEmit(repr, buf) ==
    fill_checksum(
        CopyData(
            set_echo_seq_no(
                set_echo_ident(
                    set_msg_type(set_msg_code(buf, 0), repr.kind),
                    repr.ident),
                repr.seq_no),
            repr.data))

\* Repr::parse
ReprParse(buf) ==
    IF msg_type(buf) \in {EchoRequest, EchoReply} /\ msg_code(buf) = 0
    THEN [ok |-> TRUE,
          repr |-> Repr(msg_type(buf), echo_ident(buf), echo_seq_no(buf), data(buf))]
    ELSE [ok |-> FALSE, err |-> "Unrecognized"]

\* ---------------------------------------------------------------- SpecIcmp
\* An echo Repr is emitted into a buffer of Repr::len octets that holds
\* arbitrary octets beforehand, and the buffer is parsed back.
MaxData == 4
Octets == {0, 170, 255}
Idents == {0, 4660, 65535}
SeqNos == {0, 43981, 65535}
\* what the buffer holds before emit: zeroes, 0xff, or a Redirect header
Fills == {0, 255, 5}
EchoReprs ==
    {Repr(k, i, q, d) : k \in {EchoRequest, EchoReply}, i \in Idents,
                        q \in SeqNos, d \in SeqsUpTo(Octets, MaxData)}

InitIcmp ==
    /\ servers = <<>>
    /\ queries = [h \in 1..NumSlots |-> NoneSlot]
    /\ now = 0
    /\ \E repr \in EchoReprs, f \in Fills :
           /\ last = [op |-> "repr", repr |-> repr]
           /\ pkt = [k \in 1..ReprLen(repr) |-> f]

IcmpEmit ==
    /\ last.op = "repr"
    /\ PacketNew(pkt)
    /\ pkt' = ReprEmit(last.repr, pkt)
    /\ last' = [op |-> "emit", repr |-> last.repr]
    /\ UNCHANGED <<servers, queries, now>>

IcmpParse ==
    /\ last.op = "emit"
    /\ PacketNew(pkt)
    /\ last' = [op |-> "parse", repr |-> last.repr, parsed |-> ReprParse(pkt),
                code |-> msg_code(pkt), verified |-> verify_checksum(pkt)]
    /\ UNCHANGED <<servers, queries, now, pkt>>

NextIcmp == IcmpEmit \/ IcmpParse
SpecIcmp == InitIcmp /\ [][NextIcmp]_vars

\* ------------------------------------------------- SpecSchedule, SpecTimer
\* One query, started before the first dispatch call, that gets no response.
OneQuery ==
    [i \in 1..NumSlots |->
        IF i = 1 THEN NewPending(StoredName(NameOrg), 1, 49152) ELSE NoneSlot]

\* SpecSchedule: the first resolver is valid, emit always succeeds and
\* dispatch is called (once or more) at the start instant and then every
\* second.
InitSchedule ==
    /\ servers \in {<<R1>>, <<R1, R2>>, <<R1, Unspecified>>}
    /\ now \in {k * 500 : k \in 0..MaxStart}
    /\ queries = OneQuery
    /\ last = [op |-> "start_query_raw", ret |-> "Ok", h |-> 1]
    /\ pkt = NoPkt

ScheduleDispatch == DispatchWith(TRUE)

ScheduleTick ==
    /\ last.op = "dispatch"
    /\ now + 1000 <= ScheduleSeconds * 1000
    /\ now' = now + 1000
    /\ last' = [op |-> "tick"]
    /\ UNCHANGED <<servers, queries, pkt>>

NextSchedule == ScheduleDispatch \/ ScheduleTick

SpecSchedule == InitSchedule /\ [][NextSchedule]_vars

\* SpecTimer: dispatch is called at any instants of a half-second grid, and
\* emit succeeds or fails.
TimerSteps == {500, 1000}

InitTimer ==
    /\ servers \in ServerLists
    /\ now = 0
    /\ queries = OneQuery
    /\ last = [op |-> "start_query_raw", ret |-> "Ok", h |-> 1]
    /\ pkt = NoPkt

TimerTick ==
    \E d \in TimerSteps :
        /\ now + d <= ScheduleSeconds * 1000
        /\ now' = now + d
        /\ last' = [op |-> "tick"]
        /\ UNCHANGED <<servers, queries, pkt>>

NextTimer == Dispatch \/ TimerTick

SpecTimer == InitTimer /\ [][NextTimer]_vars

\* SpecLive: queries that never get a response. dispatch is called at least
\* once at every instant the clock takes, emit succeeds or fails, and the clock
\* keeps advancing up to a horizon that leaves every slot the time to try
\* every resolver after all earlier slots have failed: a deadline fires at the
\* first instant after it, at most one clock step later.
MaxServerCount ==
    CHOOSE n \in {Len(l) : l \in ServerLists} : \A l \in ServerLists : Len(l) <= n
MaxStep == CHOOSE d \in Steps : \A e \in Steps : e <= d
LiveHorizon == NumSlots * MaxServerCount * (RETRANSMIT_TIMEOUT + MaxStep) + MaxStep

InitLive ==
    /\ servers \in ServerLists
    /\ now = 0
    /\ queries \in [1..NumSlots ->
                       {NoneSlot, NewPending(StoredName(NameOrg), 1, 49152)}]
    /\ last = [op |-> "new"]
    /\ pkt = NoPkt

LiveTick ==
    \E d \in Steps :
        /\ last.op = "dispatch"
        /\ now + d <= LiveHorizon
        /\ now' = now + d
        /\ last' = [op |-> "tick"]
        /\ UNCHANGED <<servers, queries, pkt>>

NextLive == Dispatch \/ LiveTick

SpecLive ==
    InitLive /\ [][NextLive]_vars /\ WF_vars(Dispatch) /\ WF_vars(LiveTick)

\* SpecPump: the scheduler pumps dispatch, with an emit that succeeds, until
\* it returns Exhausted; a pump is the run of dispatch calls that no other
\* call and no clock step interrupts. last records the Pending slots at the
\* start of the pump and the slots of the datagrams emitted in it so far.
Pump ==
    LET r == dispatch(queries, servers, now, TRUE)
        fresh == last.op # "pump" \/ last.ret = "Exhausted"
    IN  /\ queries' = r.queries
        /\ last' = [op |-> "pump", ret |-> r.ret, emits |-> r.emits,
                    pending |-> IF fresh
                                THEN {i \in 1..Len(queries) : IsPending(queries[i])}
                                ELSE last.pending,
                    sent |-> (IF fresh THEN <<>> ELSE last.sent)
                               \o [k \in 1..Len(r.emits) |-> r.emits[k].slot]]
        /\ UNCHANGED <<servers, now, pkt>>

NextPump ==
    \/ UpdateServers
    \/ StartQueryRaw
    \/ Pump
    \/ EgressTick

SpecPump == Init /\ [][NextPump]_vars

\* ------------------------------------------------------------------ claims
Slots == 1..NumSlots
IsDone(q) == q.state \in {"Completed", "Failure"}

\* C1: a slot that is Completed or Failure never becomes Pending again nor
\* changes its result: process, dispatch and update_servers leave it as it is,
\* and whatever the call it only stays or becomes free; an occupied slot
\* becomes free only in a get_query_result call on that handle, the slot being
\* Completed or Failure, or in a cancel_query call on that handle.
C1_SlotLifecycle ==
    [][\A i \in Slots :
        /\ (IsDone(queries[i]) /\ last'.op \in {"process", "dispatch", "update_servers"})
              => queries'[i] = queries[i]
        /\ IsDone(queries[i]) => queries'[i] \in {queries[i], NoneSlot}
        /\ (IsOccupied(queries[i]) /\ queries'[i] = NoneSlot)
              => \/ /\ last'.op = "get_query_result"
                    /\ last'.h = i
                    /\ IsDone(queries[i])
                 \/ /\ last'.op = "cancel_query"
                    /\ last'.h = i
      ]_vars

\* a dispatch call has run over a Completed and a Failure slot
C1_Witness ==
    /\ last.op = "dispatch"
    /\ \E i \in Slots : queries[i].state = "Completed"
    /\ \E i \in Slots : queries[i].state = "Failure" /\ i \notin last.failed

\* C2: get_query_result(h) gives Illegal and changes nothing for an
\* out-of-range handle or a free slot, Exhausted and changes nothing for a
\* Pending slot, the stored addresses for a Completed slot and Unaddressable
\* for a Failure slot, freeing the slot in these two cases and no other; a
\* free slot stays free until start_query_raw returns its handle.
C2_GetQueryResult ==
    [][/\ last'.op = "get_query_result" =>
            LET h == last'.h IN
            IF h \notin Slots
            THEN last'.ret = "Illegal" /\ queries' = queries
            ELSE IF queries[h].state = "None"
            THEN last'.ret = "Illegal" /\ queries' = queries
            ELSE IF queries[h].state = "Pending"
            THEN last'.ret = "Exhausted" /\ queries' = queries
            ELSE IF queries[h].state = "Completed"
            THEN /\ last'.ret = "Ok"
                 /\ last'.res = queries[h].addresses
                 /\ queries' = [queries EXCEPT ![h] = NoneSlot]
            ELSE /\ last'.ret = "Unaddressable"
                 /\ queries' = [queries EXCEPT ![h] = NoneSlot]
       /\ \A i \in Slots :
            (queries[i] = NoneSlot /\ queries'[i] # NoneSlot)
               => last'.op = "start_query_raw" /\ last'.h = i
      ]_vars

\* get_query_result has returned the addresses of a Completed slot, now free
C2_Witness ==
    /\ last.op = "get_query_result"
    /\ last.ret = "Ok"
    /\ Len(last.res) >= 1
    /\ queries[last.h] = NoneSlot

\* the owner name the k+1-th record is compared with, by the claim's pass:
\* the query name, replaced by the target of each CNAME that was owned by the
\* current name
RECURSIVE C3_CurrentName(_, _, _)
C3_CurrentName(qname, recs, k) ==
    IF k = 0 THEN qname
    ELSE LET before == C3_CurrentName(qname, recs, k - 1)
         IN  IF recs[k].kind = "Cname" /\ recs[k].name.labels = before
             THEN recs[k].target.labels
             ELSE before

\* the addresses of the A/AAAA records owned by the current name, in packet
\* order, the first MAX_ADDRESS_COUNT of them
C3_Expected(qname, recs) ==
    LET idx == [k \in 1..Len(recs) |-> k]
        Keep(k) == /\ recs[k].kind \in {"A", "Aaaa"}
                   /\ recs[k].name.labels = C3_CurrentName(qname, recs, k - 1)
        kept == SelectSeq(idx, Keep)
        n == Min(Len(kept), 4)
    IN  [j \in 1..n |-> [ver |-> IF recs[kept[j]].kind = "A" THEN 4 ELSE 6,
                         a |-> recs[kept[j]].addr]]

\* C3: after process has handled a well-formed response matching the pending
\* slot, it has returned Ok and the slot is Completed with exactly the
\* addresses of the one-pass CNAME-following scan (1 to 4 of them), or Failure
\* when the scan yields none; a CNAME for the query name followed by an A
\* record for its target yields that A address.
C3_AnswerPass ==
    last.op = "process" =>
        LET qname == pkt.question.name.labels
            exp == C3_Expected(qname, pkt.answers)
        IN  /\ last.ret = "Ok"
            /\ IF Len(exp) = 0
               THEN queries[1] = [state |-> "Failure"]
               ELSE /\ Len(exp) <= 4
                    /\ queries[1] = [state |-> "Completed", addresses |-> exp]
            /\ (qname = NameOrg
                  /\ pkt.answers = <<RecCname(PName(NameOrg), PName(NameWww)),
                                     RecA(PName(NameWww), 2)>>)
                  => queries[1] = [state |-> "Completed",
                                   addresses |-> <<[ver |-> 4, a |-> 2]>>]

\* the CNAME-then-A response has been processed and gave the A address
C3_Witness ==
    /\ last.op = "process"
    /\ pkt.question.name.labels = NameOrg
    /\ pkt.answers = <<RecCname(PName(NameOrg), PName(NameWww)), RecA(PName(NameWww), 2)>>
    /\ queries[1] = [state |-> "Completed", addresses |-> <<[ver |-> 4, a |-> 2]>>]

\* the Pending slots whose (port, txid) are those of the datagram of the
\* process call just made
C4_Addressed ==
    {i \in Slots : /\ IsPending(queries[i])
                   /\ queries[i].port = last'.port
                   /\ queries[i].txid = last'.txid}

\* C4: a process call whose datagram passes the header checks and whose
\* (dst_port, txid) are those of no Pending slot returns Ok and leaves every
\* slot as it was.
C4_StrayIgnored ==
    [][(last'.op = "process" /\ last'.hdr = "Ok" /\ C4_Addressed = {})
          => (queries' = queries /\ last'.ret = "Ok")
      ]_vars

\* a response for no Pending slot has been processed while a query was Pending
C4_Witness ==
    /\ last.op = "process"
    /\ last.hdr = "Ok"
    /\ last.ret = "Ok"
    /\ last.changed = {}
    /\ \E i \in Slots : IsPending(queries[i])
    /\ \A i \in Slots :
         IsPending(queries[i]) => (queries[i].port # last.port \/ queries[i].txid # last.txid)

\* C5: a process call that returns an error leaves every slot as it was.
C5_ErrorLeavesSlots ==
    [][(last'.op = "process" /\ last'.ret # "Ok") => queries' = queries]_vars

\* C6: a process call whose datagram passes the header checks and has rcode
\* NXDomain returns Ok and moves every Pending slot with the datagram's
\* (dst_port, txid) to Failure, whatever the question and the answers are; and
\* get_query_result on a Failure slot returns Unaddressable.
C6_NxDomain ==
    [][/\ (last'.op = "process" /\ last'.hdr = "Ok" /\ last'.rcode = "NXDomain")
            => /\ last'.ret = "Ok"
               /\ \A i \in C4_Addressed : queries'[i] = [state |-> "Failure"]
       /\ (last'.op = "get_query_result" /\ last'.h \in Slots
             /\ queries[last'.h].state = "Failure")
            => last'.ret = "Unaddressable"
      ]_vars

\* an NXDomain response has moved a Pending slot to Failure
C6_Witness ==
    /\ last.op = "process"
    /\ last.rcode = "NXDomain"
    /\ last.ret = "Ok"
    /\ last.changed # {}
    /\ \A i \in last.changed : queries[i] = [state |-> "Failure"]

\* In a dispatch step: slot i is reached by the scan (no earlier slot has had
\* a datagram handed to emit), its armed deadline has passed, the resolver
\* index it has once the timeout is accounted for, and whether it is then due.
C9_Visited(i) == last'.emits = <<>> \/ last'.emits[1].slot >= i
C9_Fires(i) == queries[i].timeout_at # NoTime /\ queries[i].timeout_at < now
C9_IndexAfter(i) == queries[i].server_idx + (IF C9_Fires(i) THEN 1 ELSE 0)
C9_Resolver(k) == k < Len(servers) /\ servers[k + 1] # Unspecified
C9_Due(i) == C9_Fires(i) \/ queries[i].retransmit_at <= now

\* the delay of slot i when dispatch hands its datagram to emit
C7_DelayAtEmit(i) == IF C9_Fires(i) THEN 1000 ELSE queries[i].delay

\* the largest of the offsets 0, 1 s, 3 s, 7 s that is at most d
C7_LastOffset(d) ==
    IF d >= 7000 THEN 7000 ELSE IF d >= 3000 THEN 3000 ELSE IF d >= 1000 THEN 1000 ELSE 0

\* C7: a successful emission for a slot sets its retransmit_at to now + delay
\* and then its delay to min(2 * delay, 10 s); and in the schedule of
\* SpecSchedule, after each dispatch call made before the resolver timeout has
\* fired, the latest emission of the query was at t0, t0 + 1 s, t0 + 3 s or
\* t0 + 7 s, whichever is the latest of these reached by the clock.
C7_Backoff ==
    /\ [][\A i \in Slots :
            (last'.op = "dispatch" /\ last'.emit_ok /\ last'.emits # <<>>
               /\ last'.emits[1].slot = i)
              => /\ IsPending(queries'[i])
                 /\ queries'[i].retransmit_at = now + C7_DelayAtEmit(i)
                 /\ queries'[i].delay =
                       Min(2 * C7_DelayAtEmit(i), 10000)
         ]_vars
    /\ [](\A i \in Slots :
            (last.op = "dispatch" /\ IsPending(queries[i]) /\ queries[i].server_idx = 0)
              => /\ queries[i].first_visit # NoTime
                 /\ now <= queries[i].first_visit + 10000
                 /\ queries[i].last_sent =
                       queries[i].first_visit + C7_LastOffset(now - queries[i].first_visit))

\* the fourth datagram has been emitted, 7 s after the first, and the delay
\* has reached its cap
C7_Witness ==
    /\ last.op = "dispatch"
    /\ last.emits # <<>>
    /\ IsPending(queries[1])
    /\ queries[1].server_idx = 0
    /\ now = queries[1].first_visit + 7000
    /\ queries[1].last_sent = now
    /\ queries[1].delay = 10000

\* C8 as stated: after the dispatch call made when the clock reads t0 + 10 s,
\* the query's server_idx is 1.
C8_FiresAtTenSeconds ==
    \A i \in Slots :
        (last.op = "dispatch" /\ IsPending(queries[i])
           /\ queries[i].first_visit # NoTime
           /\ now = queries[i].first_visit + 10000)
          => queries[i].server_idx = 1

\* C8 amended: a dispatch call on a query still at its first resolver, first
\* visited at t0, keeps server_idx 0 when the clock reads at most t0 + 10 s,
\* and fires the timeout when the clock reads more than t0 + 10 s: the query
\* is then at server_idx 1, or Failure when there is no valid second resolver.
C8_FiresAfterTenSeconds ==
    [][\A i \in Slots :
        (last'.op = "dispatch" /\ IsPending(queries[i]) /\ C9_Visited(i)
           /\ queries[i].server_idx = 0 /\ queries[i].first_visit # NoTime)
          => IF now > queries[i].first_visit + 10000
             THEN IF C9_Resolver(1)
                  THEN IsPending(queries'[i]) /\ queries'[i].server_idx = 1
                  ELSE queries'[i] = [state |-> "Failure"]
             ELSE IsPending(queries'[i]) /\ queries'[i].server_idx = 0
      ]_vars

\* the timeout has fired in the dispatch call made 10.5 s after the first
C8_Witness ==
    /\ last.op = "dispatch"
    /\ IsPending(queries[1])
    /\ queries[1].server_idx = 1
    /\ now = queries[1].first_visit + 10500
    /\ queries[1].timeout_at = now + 10000

\* C9: when dispatch reaches a Pending slot at resolver i whose deadline has
\* passed, and resolver i + 1 exists and is specified, the slot moves to
\* resolver i + 1 with timeout_at = now + 10 s, and its datagram is handed to
\* emit in that call, addressed to resolver i + 1, port 53, with the backoff
\* reset: retransmit_at = epoch zero and delay = 1 s when emit fails,
\* retransmit_at = now + 1 s and delay = 2 s when it succeeds.
C9_Failover ==
    [][\A i \in Slots :
        (last'.op = "dispatch" /\ IsPending(queries[i]) /\ C9_Visited(i)
           /\ C9_Fires(i) /\ C9_Resolver(queries[i].server_idx + 1))
          => /\ IsPending(queries'[i])
             /\ queries'[i].server_idx = queries[i].server_idx + 1
             /\ queries'[i].timeout_at = now + 10000
             /\ Len(last'.emits) = 1
             /\ last'.emits[1].slot = i
             /\ last'.emits[1].dst_addr = servers[queries[i].server_idx + 2]
             /\ last'.emits[1].dst_port = 53
             /\ IF last'.emit_ok
                THEN queries'[i].retransmit_at = now + 1000 /\ queries'[i].delay = 2000
                ELSE queries'[i].retransmit_at = 0 /\ queries'[i].delay = 1000
      ]_vars

\* a datagram has been emitted to the second resolver in the call that fired
\* the timeout
C9_Witness ==
    /\ last.op = "dispatch"
    /\ Len(last.emits) = 1
    /\ last.emits[1].dst_addr = R2
    /\ now > 0
    /\ IsPending(queries[last.emits[1].slot])
    /\ queries[last.emits[1].slot].server_idx = 1
    /\ queries[last.emits[1].slot].timeout_at = now + 10000

\* C10: when dispatch reaches a Pending slot whose resolver index, after the
\* timeout increment of that call if any, is not below the number of
\* resolvers or selects an unspecified address, the slot becomes Failure, no
\* datagram is handed to emit for it, and a later Pending slot that has a valid
\* resolver and is due still gets a datagram emitted in the same call.
C10_NoResolver ==
    [][\A i \in Slots :
        (last'.op = "dispatch" /\ IsPending(queries[i]) /\ C9_Visited(i)
           /\ ~C9_Resolver(C9_IndexAfter(i)))
          => /\ queries'[i] = [state |-> "Failure"]
             /\ \A k \in 1..Len(last'.emits) : last'.emits[k].slot # i
             /\ (\E j \in Slots : /\ j > i
                                  /\ IsPending(queries[j])
                                  /\ C9_Resolver(C9_IndexAfter(j))
                                  /\ C9_Due(j))
                  => Len(last'.emits) = 1 /\ last'.emits[1].slot > i
      ]_vars

\* a dispatch call has failed slot 1, whose timeout fired with a single
\* resolver, and emitted for slot 2
C10_Witness ==
    /\ last.op = "dispatch"
    /\ Len(servers) = 1
    /\ now > 0
    /\ 1 \in last.failed
    /\ Len(last.emits) = 1
    /\ last.emits[1].slot = 2

\* the instant dispatch first visited slot i, the call being made included
C11_FirstVisit(i) ==
    IF queries[i].first_visit = NoTime THEN now ELSE queries[i].first_visit

RECURSIVE C11_TriedFrom(_, _)
\* the number of resolvers of srv before the first unspecified one, from
\* index k on
C11_TriedFrom(srv, k) ==
    IF k > Len(srv) THEN 0
    ELSE IF srv[k] = Unspecified THEN 0
    ELSE 1 + C11_TriedFrom(srv, k + 1)

C11_Tried(srv) == C11_TriedFrom(srv, 1)

\* C11 as stated: a dispatch call moves a Pending slot to Failure only when
\* (number of configured resolvers) x 10 s have elapsed since dispatch first
\* visited it.
C11_NoEarlyFailure ==
    [][\A i \in Slots :
        (last'.op = "dispatch" /\ i \in last'.failed)
          => now - C11_FirstVisit(i) >= Len(servers) * 10000
      ]_vars

\* C11 amended: with a resolver list that is not replaced, a dispatch call
\* moves a Pending slot to Failure only when its resolver index, after the
\* timeout increment of that call if any, is the number of resolvers before
\* the first unspecified one, and not before that many times 10 s have elapsed
\* since dispatch first visited the slot (more than that, when the number is
\* not zero).
C11_NoEarlyFailureOfTried ==
    [][\A i \in Slots :
        (last'.op = "dispatch" /\ i \in last'.failed)
          => /\ C9_IndexAfter(i) = C11_Tried(servers)
             /\ now - C11_FirstVisit(i) >= C11_Tried(servers) * 10000
             /\ C11_Tried(servers) > 0
                  => now - C11_FirstVisit(i) > C11_Tried(servers) * 10000
      ]_vars

\* dispatch has failed the query after the windows of two resolvers
C11_Witness ==
    /\ last.op = "dispatch"
    /\ 1 \in last.failed
    /\ servers = <<R1, R2>>
    /\ now > 20000

\* C12: every Pending slot has RETRANSMIT_DELAY <= delay <= MAX_RETRANSMIT_DELAY.
C12_DelayRange ==
    \A i \in Slots :
        IsPending(queries[i])
          => /\ RETRANSMIT_DELAY <= queries[i].delay
             /\ queries[i].delay <= MAX_RETRANSMIT_DELAY

\* after a timeout reset, the delay of the query has grown to its cap again
C12_Witness ==
    /\ last.op = "dispatch"
    /\ last.emit_ok
    /\ last.emits # <<>>
    /\ IsPending(queries[1])
    /\ queries[1].server_idx = 1
    /\ queries[1].delay = MAX_RETRANSMIT_DELAY

\* C13 as stated: every Pending slot has server_idx <= the length of the
\* resolver list.
C13_IndexBound ==
    \A i \in Slots :
        IsPending(queries[i]) => queries[i].server_idx <= Len(servers)

\* C13 amended: a Pending slot has server_idx above the length of the resolver
\* list only when update_servers has just replaced the list by a shorter one,
\* or when the slot already had that index above the length before the step;
\* and a Pending slot that a dispatch call has visited and left Pending has
\* server_idx below the length.
C13_IndexBoundUntilShortened ==
    [][\A i \in Slots :
        /\ (IsPending(queries'[i]) /\ queries'[i].server_idx > Len(servers'))
              => /\ IsPending(queries[i])
                 /\ queries'[i].server_idx = queries[i].server_idx
                 /\ \/ last'.op = "update_servers" /\ Len(servers') < Len(servers)
                    \/ queries[i].server_idx > Len(servers)
        /\ (last'.op = "dispatch" /\ IsPending(queries[i]) /\ C9_Visited(i)
              /\ IsPending(queries'[i]))
              => queries'[i].server_idx < Len(servers)
      ]_vars

\* update_servers has left a query at its second resolver with an empty list
C13_Witness ==
    /\ last.op = "update_servers"
    /\ servers = <<>>
    /\ \E i \in Slots : IsPending(queries[i]) /\ queries[i].server_idx = 1

\* C14 as stated: update_servers replaces the list and leaves every slot as it
\* is, and the dispatch call that follows it moves every Pending slot whose
\* server_idx is out of range for the new list to Failure.
C14_FailsOnNextDispatch ==
    [][/\ last'.op = "update_servers"
            => servers' \in ServerLists /\ queries' = queries
       /\ \A i \in Slots :
            (last.op = "update_servers" /\ last'.op = "dispatch"
               /\ IsPending(queries[i]) /\ queries[i].server_idx >= Len(servers))
              => queries'[i] = [state |-> "Failure"]
      ]_vars

\* C14 amended: update_servers replaces the list and leaves every slot as it
\* is, and a dispatch call moves every Pending slot whose server_idx is out of
\* range to Failure when its scan reaches the slot (no earlier slot has had a
\* datagram handed to emit); a slot it does not reach is left as it is.
C14_FailsWhenVisited ==
    [][/\ last'.op = "update_servers"
            => servers' \in ServerLists /\ queries' = queries
       /\ \A i \in Slots :
            (last'.op = "dispatch" /\ IsPending(queries[i])
               /\ queries[i].server_idx >= Len(servers))
              => IF C9_Visited(i)
                 THEN queries'[i] = [state |-> "Failure"]
                 ELSE queries'[i] = queries[i]
      ]_vars

\* dispatch has failed a query whose resolver index update_servers had left
\* out of range for a list of one resolver
C14_Witness ==
    /\ last.op = "dispatch"
    /\ Len(servers) = 1
    /\ last.stale \cap last.failed # {}

\* C15: a dispatch call hands at most one datagram to emit, returns Exhausted
\* when it handed none and Ok when it handed one, whether emit succeeded or
\* failed.
C15_OneEmit ==
    last.op = "dispatch"
      => /\ Len(last.emits) <= 1
         /\ last.ret \in {"Ok", "Exhausted"}
         /\ last.ret = "Exhausted" <=> last.emits = <<>>

\* a dispatch call whose emit failed has returned Ok, with two queries due
C15_Witness ==
    /\ last.op = "dispatch"
    /\ ~last.emit_ok
    /\ last.ret = "Ok"
    /\ Len(last.emits) = 1
    /\ \A i \in 1..2 : IsPending(queries[i]) /\ queries[i].retransmit_at <= now

\* C16: a dispatch call whose emit fails returns Ok and leaves the slot
\* Pending with the backoff it had when the datagram was built: retransmit_at
\* is not after now and delay is not doubled; and the dispatch call that comes
\* right after it, at the same instant, hands the same datagram of the same
\* slot to emit again.
C16_EmitError ==
    [][/\ \A i \in Slots :
            (last'.op = "dispatch" /\ ~last'.emit_ok /\ last'.emits # <<>>
               /\ last'.emits[1].slot = i)
              => /\ last'.ret = "Ok"
                 /\ IsPending(queries'[i])
                 /\ queries'[i].delay = C7_DelayAtEmit(i)
                 /\ queries'[i].retransmit_at =
                       (IF C9_Fires(i) THEN ZERO ELSE queries[i].retransmit_at)
                 /\ queries'[i].retransmit_at <= now
       /\ (last.op = "dispatch" /\ ~last.emit_ok /\ last.emits # <<>>
             /\ last'.op = "dispatch")
            => last'.emits = last.emits
      ]_vars

\* emit has failed for a retransmission: the query keeps the delay of 2 s and
\* the retransmit_at of 1 s that its first emission gave it
C16_Witness ==
    /\ last.op = "dispatch"
    /\ ~last.emit_ok
    /\ Len(last.emits) = 1
    /\ now = 4000
    /\ queries[last.emits[1].slot].delay = 2000
    /\ queries[last.emits[1].slot].retransmit_at = 1000

\* C17: a slot that is Pending before and after a step has the same txid and
\* port; start_query_raw stores a txid and a port drawn from the context's
\* generator; and a datagram handed to emit carries the txid of its slot, the
\* port of its slot as UDP source port, and UDP destination port 53.
C17_FixedIds ==
    [][/\ \A i \in Slots :
            (IsPending(queries[i]) /\ IsPending(queries'[i]))
              => /\ queries'[i].txid = queries[i].txid
                 /\ queries'[i].port = queries[i].port
       /\ (last'.op = "start_query_raw" /\ last'.ret = "Ok")
            => /\ ~IsOccupied(queries[last'.h])
               /\ queries'[last'.h].txid \in Txids
               /\ queries'[last'.h].port \in Ports
       /\ (last'.op = "dispatch" /\ last'.emits # <<>>)
            => /\ last'.emits[1].txid = queries[last'.emits[1].slot].txid
               /\ last'.emits[1].src_port = queries[last'.emits[1].slot].port
               /\ last'.emits[1].dst_port = 53
      ]_vars

\* a datagram of the query with transaction id 2 has been emitted to the
\* second resolver
C17_Witness ==
    /\ last.op = "dispatch"
    /\ Len(last.emits) = 1
    /\ last.emits[1].server_idx = 1
    /\ last.emits[1].txid = 2
    /\ last.emits[1].src_port = 49152
    /\ queries[last.emits[1].slot].txid = 2

\* C18: when a dispatch call emits successfully for a slot, the latest
\* successful emission for that query, if there is one, was at an earlier
\* instant.
C18_StrictlyLater ==
    [][\A i \in Slots :
        (last'.op = "dispatch" /\ last'.emit_ok /\ last'.emits # <<>>
           /\ last'.emits[1].slot = i /\ queries[i].last_sent # NoTime)
          => /\ queries[i].last_sent < now
             /\ queries'[i].last_sent = now
      ]_vars

\* the query has emitted in the call that fired its timeout and reset
\* retransmit_at, 3.5 s after its latest emission to the first resolver
C18_Witness ==
    /\ last.op = "dispatch"
    /\ last.emit_ok
    /\ Len(last.emits) = 1
    /\ last.emits[1].server_idx = 1
    /\ now = 10500
    /\ queries[1].first_visit = 0
    /\ queries[1].last_sent = now
    /\ queries[1].timeout_at = now + RETRANSMIT_TIMEOUT

\* C19: poll_at changes no state; it returns Ingress when no slot is Pending,
\* and otherwise Time(t) where t is the retransmit_at of a Pending slot and no
\* Pending slot has an earlier one; and it returns Time(epoch zero) when some
\* Pending query has not been emitted yet.
C19_PollAt ==
    [][last'.op = "poll_at"
         => /\ UNCHANGED <<servers, queries, now, pkt>>
            /\ (\A i \in Slots : ~IsPending(queries[i]))
                 => last'.ret.kind = "Ingress"
            /\ (\E i \in Slots : IsPending(queries[i]))
                 => /\ last'.ret.kind = "Time"
                    /\ \E i \in Slots : /\ IsPending(queries[i])
                                        /\ last'.ret.t = queries[i].retransmit_at
                    /\ \A i \in Slots : IsPending(queries[i])
                                          => last'.ret.t <= queries[i].retransmit_at
            /\ (\E i \in Slots : /\ IsPending(queries[i])
                                 /\ queries[i].last_sent = NoTime)
                 => last'.ret = [kind |-> "Time", t |-> ZERO]
      ]_vars

\* poll_at has returned the retransmit instant of the second query, the
\* first one being Completed
C19_Witness ==
    /\ last.op = "poll_at"
    /\ queries[1].state = "Completed"
    /\ IsPending(queries[2])
    /\ queries[2].retransmit_at > now
    /\ last.ret = [kind |-> "Time", t |-> queries[2].retransmit_at]

\* the free slots of the table
C20_Free == {i \in Slots : ~IsOccupied(queries[i])}

\* C20: the table keeps its NumSlots slots; a start_query_raw call returns
\* Exhausted when no slot is free; when it succeeds, it returns the lowest
\* free index, has made that slot a new Pending query and has left every other
\* slot as it is; when it fails it leaves the table as it is.
C20_SlotExhaustion ==
    [][/\ Len(queries') = NumSlots
       /\ last'.op = "start_query_raw"
            => /\ C20_Free = {} => last'.ret = "Exhausted"
               /\ last'.ret # "Ok" => queries' = queries
               /\ last'.ret = "Ok"
                    => /\ last'.h \in C20_Free
                       /\ \A j \in C20_Free : last'.h <= j
                       /\ IsPending(queries'[last'.h])
                       /\ queries'[last'.h].server_idx = 0
                       /\ queries'[last'.h].retransmit_at = ZERO
                       /\ queries'[last'.h].timeout_at = NoTime
                       /\ queries'[last'.h].delay = RETRANSMIT_DELAY
                       /\ \A j \in Slots \ {last'.h} : queries'[j] = queries[j]
      ]_vars

\* start_query_raw has returned Exhausted on a full table that holds a
\* finished query
C20_Witness ==
    /\ last.op = "start_query_raw"
    /\ last.ret = "Exhausted"
    /\ \A i \in Slots : IsOccupied(queries[i])
    /\ \E i \in Slots : IsDone(queries[i])

\* C21: cancel_query on the handle of an occupied slot, Pending, Completed or
\* Failure, returns Ok, frees that slot and leaves every other slot as it is;
\* on an out-of-range handle or a free slot it returns Illegal and changes
\* nothing; a cancel_query call right after one on the same handle returns
\* Illegal.
C21_CancelQuery ==
    [][/\ last'.op = "cancel_query"
            => /\ UNCHANGED <<servers, now>>
               /\ IF last'.h \in Slots /\ IsOccupied(queries[last'.h])
                  THEN /\ last'.ret = "Ok"
                       /\ queries'[last'.h] = NoneSlot
                       /\ \A j \in Slots \ {last'.h} : queries'[j] = queries[j]
                  ELSE last'.ret = "Illegal" /\ queries' = queries
       /\ (last.op = "cancel_query" /\ last'.op = "cancel_query" /\ last'.h = last.h)
            => last'.ret = "Illegal" /\ queries' = queries
      ]_vars

\* cancel_query has freed the first slot, the second one holding a Completed
\* query
C21_Witness ==
    /\ last.op = "cancel_query"
    /\ last.ret = "Ok"
    /\ last.h = 1
    /\ queries[1] = NoneSlot
    /\ queries[2].state = "Completed"

\* the octets of the encoding of labels: a length octet before each label
\* and the terminator
RECURSIVE C22_EncodedLen(_)
C22_EncodedLen(labels) ==
    IF labels = <<>> THEN 1
    ELSE 1 + Head(labels) + C22_EncodedLen(Tail(labels))

\* the labels of name n once one trailing dot is stripped
C22_Labels(n) == IF Len(n) >= 2 /\ n[Len(n)] = 0 THEN SubSeq(n, 1, Len(n) - 1) ELSE n

\* the error C22 gives for name n, "Ok" when it gives none
C22_Verdict(n) ==
    IF n = <<0>> THEN "Illegal"
    ELSE IF \E k \in 1..Len(C22_Labels(n)) :
               C22_Labels(n)[k] = 0 \/ C22_Labels(n)[k] > 255
         THEN "Illegal"
    ELSE IF C22_EncodedLen(C22_Labels(n)) > 255 THEN "Exhausted"
    ELSE "Ok"

\* C22: start_query returns Illegal for an empty name and for a name that,
\* one trailing dot stripped, has an empty label or a label of more than 255
\* octets, and Exhausted for a name whose encoding has more than 255 octets;
\* a failing call leaves the table as it is; a successful call stores the
\* labels of the name without its trailing dot.
C22_StartQuery ==
    [][last'.op = "start_query"
         => /\ C22_Verdict(last'.name) # "Ok" => last'.ret = C22_Verdict(last'.name)
            /\ last'.ret # "Ok" => queries' = queries
            /\ last'.ret = "Ok"
                 => queries'[last'.h].name = StoredName(C22_Labels(last'.name))
      ]_vars


\* C23: an EchoRequest or EchoReply Repr emitted into a buffer of exactly
\* Repr::len octets parses back to the same Repr, the emitted code octet is 0
\* and the emitted packet passes verify_checksum.
C23_RoundTrip ==
    last.op = "parse" =>
        /\ Len(pkt) = ReprLen(last.repr)
        /\ last.parsed = [ok |-> TRUE, repr |-> last.repr]
        /\ last.code = 0
        /\ last.verified

\* the echo request of the source's tests, 08 00 39 fe 12 34 ab cd aa 00 00 ff,
\* emitted and parsed back
C23_Witness ==
    /\ last.op = "parse"
    /\ last.repr = Repr(EchoRequest, 4660, 43981, <<170, 0, 0, 255>>)
    /\ pkt = <<8, 0, 57, 254, 18, 52, 171, 205, 170, 0, 0, 255>>
    /\ last.parsed.ok

\* In a process step: the slots the call moves out of Pending, and whether
\* the call changes no slot but the first one its datagram is addressed to.
C24_Left == {i \in Slots : IsPending(queries[i]) /\ ~IsPending(queries'[i])}
C24_OnlyFirst ==
    /\ Cardinality(C24_Left) <= 1
    /\ \A i \in Slots :
         queries'[i] # queries[i]
            => (i \in C4_Addressed /\ \A j \in C4_Addressed : i <= j)

\* C24 as stated: every process call moves at most one slot out of Pending,
\* the first slot in slot order with the datagram's (dst_port, txid), and
\* leaves every other slot unchanged, whatever the rcode.
C24_AtMostOne == [][last'.op = "process" => C24_OnlyFirst]_vars

\* C24: a process call whose datagram is not an NXDomain response moves at
\* most one slot out of Pending, the first slot in slot order with the
\* datagram's (dst_port, txid), and leaves every other slot unchanged, also
\* when several Pending slots hold the same pair; an NXDomain response that
\* passes the header checks moves every Pending slot with that pair to Failure
\* and leaves every other slot unchanged.
C24_AtMostOneUnlessNxDomain ==
    [][last'.op = "process"
         => IF last'.hdr = "Ok" /\ last'.rcode = "NXDomain"
            THEN \A i \in Slots :
                    queries'[i] = IF i \in C4_Addressed THEN [state |-> "Failure"]
                                  ELSE queries[i]
            ELSE C24_OnlyFirst
      ]_vars

\* two Pending slots held the same (port, txid); a response that is not
\* NXDomain has answered the first and left the second Pending as it was
C24_Witness ==
    /\ last.op = "process"
    /\ last.rcode # "NXDomain"
    /\ last.ret = "Ok"
    /\ last.changed = {1}
    /\ ~IsPending(queries[1])
    /\ IsPending(queries[2])
    /\ queries[2].port = last.port
    /\ queries[2].txid = last.txid

C26_PumpTerminates ==
    last.op = "pump"
      => /\ last.ret \in {"Ok", "Exhausted"}
         /\ last.ret = "Exhausted" <=> last.emits = <<>>
         /\ \A k \in 1..Len(last.sent) : last.sent[k] \in last.pending
         /\ \A k, l \in 1..Len(last.sent) : last.sent[k] = last.sent[l] => k = l
         /\ Len(last.sent) <= Cardinality(last.pending)

\* a pump has returned Exhausted after one datagram for each of two slots
C26_Witness ==
    /\ last.op = "pump"
    /\ last.ret = "Exhausted"
    /\ Len(last.sent) = 2
    /\ Cardinality(last.pending) = 2

\* C27: every datagram that dispatch hands to emit carries as its question
\* name the wire name its query was started with, whatever process calls
\* happened since; every query is started with a name of QueryNames.
C27_StartedName ==
    last.op = "dispatch"
      => \A k \in 1..Len(last.emits) : last.emits[k].name \in QueryNames

\* the Pending slots with an armed deadline
C28_Armed == {i \in Slots : IsPending(queries[i]) /\ queries[i].timeout_at # NoTime}

\* the largest delay a query can emit with before a deadline: the fourth of
\* the doubling sequence, the fifth emission coming 15 s after the first
C28_LastDelay == RETRANSMIT_DELAY * 2 * 2 * 2

\* C28 as stated: whenever a Pending slot has an armed deadline T, poll_at
\* returns Time(t) with t <= T.
C28_NotAfterDeadline ==
    \A i \in C28_Armed :
        /\ poll_at(queries).kind = "Time"
        /\ poll_at(queries).t <= queries[i].timeout_at

\* C28: whenever a Pending slot has an armed deadline T, poll_at returns
\* Time(t) where t is not after the slot's retransmit_at; retransmit_at, and
\* with it t, can be after T, by at most the delay of 8 s.
C28_AfterDeadlineByBackoff ==
    \A i \in C28_Armed :
        /\ poll_at(queries).kind = "Time"
        /\ poll_at(queries).t <= queries[i].retransmit_at
        /\ queries[i].retransmit_at <= queries[i].timeout_at + C28_LastDelay

\* after emissions at 0 s, 1 s, 3 s and 7 s poll_at returns 15 s, 5 s after
\* the deadline of 10 s
C28_Witness ==
    /\ C28_Armed = {1}
    /\ queries[1].first_visit = 0
    /\ queries[1].last_sent = 7 * RETRANSMIT_DELAY
    /\ queries[1].timeout_at = RETRANSMIT_TIMEOUT
    /\ poll_at(queries) = [kind |-> "Time", t |-> 15 * RETRANSMIT_DELAY]
====
